---- MODULE Spec2Model ----
(***************************************************************************)
(* latexexpr_efficalc.sympy: the bridge between the LaTeX expression tree  *)
(* (Variable / Operation / Expression) and the CAS expression tree, and    *)
(* the six public operations simplify, expand, factor, collect, cancel,    *)
(* apart in their module-level and method forms.                           *)
(*                                                                         *)
(* The CAS itself is external: its constructors (Add, Mul, Pow, sin, ...)  *)
(* are modelled as free term constructors, and its entry points            *)
(* (sympy.simplify, ...) as a nondeterministic choice among CAS trees.     *)
(***************************************************************************)
EXTENDS Integers, Sequences, FiniteSets, TLC

VARIABLES heap,   \* the objects of the session: id -> Variable / Operation / Expression
          ret,    \* outcome of the last call: returned reference, None, or exception
          last,   \* the last call: its form and the reference it was made on
          calls,  \* number of calls made so far
          cin,    \* conversion under test: the object handed to _operation_to_sympy
          csf,    \* conversion under test: substituteFloats as given by the caller
          cout,   \* conversion under test: (CAS tree, varMap) of _operation_to_sympy
          cback,  \* conversion under test: the object _sympy2operation gives back
          pc      \* conversion under test: position

vars == <<heap, ret, last, calls, cin, csf, cout, cback, pc>>

----------------------------------------------------------------------------
(* Bounds *)

MaxCalls == 2     \* calls in one session
MaxArity == 2     \* arguments of an n-ary operation in the conversion inputs

----------------------------------------------------------------------------
(* Operation tags of latexexpr_efficalc that the module dispatches on *)

_ADD == "add"
_MUL == "mul"
_MAX == "max"
_MIN == "min"
_SUB == "sub"
_DIV == "div"
_DIV2 == "div2"
_POW == "pow"
_ROOT == "root"
_LOG == "log"
_NEG == "neg"
_ABS == "abs"
_SQR == "sqr"
_SQRT == "sqrt"
_SIN == "sin"
_COS == "cos"
_TAN == "tan"
_SINH == "sinh"
_COSH == "cosh"
_TANH == "tanh"
_EXP == "exp"
_LN == "ln"
_LOG10 == "log10"
_NONE == "none"
_RBRACKETS == "rbrackets"
_SBRACKETS == "sbrackets"
_CBRACKETS == "cbrackets"
_ABRACKETS == "abrackets"
_POS == "pos"

_supportedOperationsN == {_ADD, _MUL, _MAX, _MIN}
_supportedOperations2 == {_SUB, _DIV, _DIV2, _POW, _ROOT, _LOG}
_supportedOperations1 == {_NEG, _ABS, _SQR, _SQRT, _SIN, _COS, _TAN, _SINH, _COSH,
                          _TANH, _EXP, _LN, _LOG10, _NONE, _RBRACKETS, _SBRACKETS,
                          _CBRACKETS, _ABRACKETS, _POS}

----------------------------------------------------------------------------
(* Objects of the LaTeX side.  All are records of one shape; `kind` says   *)
(* which class the object has.  A value is the rational num/den; a         *)
(* Variable with symbolic = TRUE has value None.  id names the object a    *)
(* program variable is bound to; objects created inside a call have id 0.  *)

DefaultFormat == "%.4g"

Obj(kind, id, name, symbolic, num, den, type, args, operation, format) ==
    [kind |-> kind, id |-> id, name |-> name, symbolic |-> symbolic,
     num |-> num, den |-> den, type |-> type, args |-> args,
     operation |-> operation, format |-> format, exponent |-> 0]

\* latexexpr_efficalc.Variable(name, value)
Variable(id, name, symbolic, num, den) ==
    Obj("Variable", id, name, symbolic, num, den, "", <<>>, 0, DefaultFormat)

\* latexexpr_efficalc.Operation(type, *args)
Operation(type, args) ==
    Obj("Operation", 0, "", FALSE, 0, 1, type, args, 0, DefaultFormat)

\* latexexpr_efficalc.Expression(name, operation): operation is a reference
Expression(id, name, operation) ==
    Obj("Expression", id, name, FALSE, 0, 1, "", <<>>, operation, DefaultFormat)

\* an exception raised on the LaTeX side, by its class name
Raise(name) ==
    Obj("Error", 0, name, FALSE, 0, 1, "", <<>>, 0, "")

IsError(o) == o.kind = "Error"

\* Python's "%g" % v for the values used here: integers and odd halves
FmtG(num, den) ==
    IF den = 1 THEN ToString(num)
    ELSE LET a == IF num < 0 THEN -num ELSE num
         IN  (IF num < 0 THEN "-" ELSE "") \o ToString(a \div 2) \o ".5"

\* a number met where an object is expected is wrapped as Variable("%g" % v, v)
Number(num, den) == Variable(0, FmtG(num, den), FALSE, num, den)

----------------------------------------------------------------------------
(* Nodes of the CAS tree, again of one shape. *)

SNode(k, name, num, den, args) ==
    [k |-> k, name |-> name, num |-> num, den |-> den, args |-> args]

Integer(n) == SNode("Integer", "", n, 1, <<>>)
Float(num, den) == SNode("Float", "", num, den, <<>>)
Rational(p, q) == SNode("Rational", "", p, q, <<>>)
Symbol(name) == SNode("Symbol", name, 0, 1, <<>>)
\* an object handed to a CAS constructor without conversion
Raw(name) == SNode("Raw", name, 0, 1, <<>>)
\* an exception raised while building or converting, by its class name
SError(name) == SNode("Error", name, 0, 1, <<>>)

IsSError(s) == s.k = "Error"

\* the first exception among already evaluated arguments, if any
FirstError(args) ==
    LET bad == {i \in 1..Len(args) : IsSError(args[i])}
    IN  IF bad = {} THEN SError("") ELSE args[CHOOSE i \in bad : \A j \in bad : i <= j]

\* sympyOp(*args): a CAS constructor applied to evaluated arguments
Apply(k, args) ==
    IF \E i \in 1..Len(args) : IsSError(args[i]) THEN FirstError(args)
    ELSE SNode(k, "", 0, 1, args)

EmptyMap == [n \in {} |-> n]

----------------------------------------------------------------------------
(* _operation_to_sympy: LaTeX tree -> (CAS tree, varMap) *)

Conv(expr, varMap) == [expr |-> expr, varMap |-> varMap]

\* VariableToSympy without the test for a number's own name
VariableToSympy_NoLiteral(arg, varMap, sf) ==
    IF ~sf \/ arg.symbolic
    THEN Conv(Symbol(arg.name), (arg.name :> arg) @@ varMap)
    ELSE Conv(Float(arg.num, arg.den), varMap)

\* isinstance(arg, Variable) branch
VariableToSympy(arg, varMap, sf) ==
    IF ~arg.symbolic /\ arg.name = FmtG(arg.num, arg.den)
    THEN IF arg.den = 1
         THEN Conv(Integer(arg.num), varMap)
         ELSE Conv(Float(arg.num, arg.den), varMap)
    ELSE IF ~sf \/ arg.symbolic
         THEN Conv(Symbol(arg.name), (arg.name :> arg) @@ varMap)
         ELSE Conv(Float(arg.num, arg.den), varMap)

\* t in _supportedOperationsN, args already converted
NaryToSympy(t, args) ==
    IF t = _ADD THEN Apply("Add", args)
    ELSE IF t = _MUL THEN Apply("Mul", args)
    ELSE IF \E i \in 1..Len(args) : IsSError(args[i]) THEN FirstError(args)
    ELSE SError("UnboundLocalError")

\* BinaryToSympy with the subtrahend added instead of subtracted
BinaryToSympy_SubAsAdd(t, x, y) ==
    IF t = _SUB THEN Apply("Add", <<x, y>>)
    ELSE IF t = _DIV \/ t = _DIV2 THEN Apply("Mul", <<x, Apply("Pow", <<y, Integer(-1)>>)>>)
    ELSE IF t = _POW THEN Apply("Pow", <<x, y>>)
    ELSE IF t = _ROOT THEN Apply("Pow", <<x, y>>)
    ELSE IF t = _LOG THEN Apply("log", <<x, y>>)
    ELSE IF IsSError(x) THEN x
    ELSE IF IsSError(y) THEN y
    ELSE SError("UnboundLocalError")

\* t in _supportedOperations2, x and y the converted operands
BinaryToSympy(t, x, y) ==
    IF t = _SUB THEN Apply("Add", <<x, Apply("Mul", <<Integer(-1), y>>)>>)
    ELSE IF t = _DIV \/ t = _DIV2 THEN Apply("Mul", <<x, Apply("Pow", <<y, Integer(-1)>>)>>)
    ELSE IF t = _POW THEN Apply("Pow", <<x, y>>)
    ELSE IF t = _ROOT THEN Apply("Pow", <<x, y>>)
    ELSE IF t = _LOG THEN Apply("log", <<x, y>>)
    ELSE IF IsSError(x) THEN x
    ELSE IF IsSError(y) THEN y
    ELSE SError("UnboundLocalError")

\* the second operand as the binary branch hands it to _o2s
BinarySecond(t, a) ==
    IF t = _ROOT THEN Operation(_NEG, <<a[2]>>) ELSE a[2]

\* t in _supportedOperations1 (not a bracket, not _LOG10), x the converted operand
UnaryToSympy(t, x) ==
    IF t = _NEG THEN Apply("Mul", <<x, Integer(-1)>>)
    ELSE IF t = _ABS THEN Apply("Abs", <<x>>)
    ELSE IF t = _SQR THEN Apply("Pow", <<x, Integer(2)>>)
    ELSE IF t = _SQRT THEN Apply("Pow", <<x, Integer(-2)>>)
    ELSE IF t = _SIN THEN Apply("sin", <<x>>)
    ELSE IF t = _COS THEN Apply("cos", <<x>>)
    ELSE IF t = _TAN THEN Apply("tan", <<x>>)
    ELSE IF t = _SINH THEN Apply("sinh", <<x>>)
    ELSE IF t = _COSH THEN Apply("sinh", <<x>>)
    ELSE IF t = _TANH THEN Apply("sinh", <<x>>)
    ELSE IF t = _EXP THEN Apply("exp", <<x>>)
    ELSE IF t = _LN THEN Apply("log", <<x>>)
    ELSE IF IsSError(x) THEN x
    ELSE SError("UnboundLocalError")

PassThrough == {_NONE, _RBRACKETS, _SBRACKETS, _CBRACKETS, _ABRACKETS, _POS}

\* the three operation branches, c being the converted operand(s) with the varMap
NaryBranch(t, c) == Conv(NaryToSympy(t, c.exprs), c.varMap)
BinaryBranch(t, c) == Conv(BinaryToSympy(t, c.exprs[1], c.exprs[2]), c.varMap)
UnaryBranch(t, c) == Conv(UnaryToSympy(t, c.expr), c.varMap)

\* c followed by the conversions r of the arguments after it
ConsConv(c, r) == [exprs |-> <<c.expr>> \o r.exprs, varMap |-> r.varMap]

RECURSIVE _operation_to_sympy(_, _, _, _)
RECURSIVE _o2sList(_, _, _, _)
RECURSIVE _o2sRest(_, _, _, _)

\* [_o2s(a, varMap, sf) for a in args]: in order, through the one shared varMap
_o2sList(h, args, varMap, sf) ==
    IF args = <<>> THEN [exprs |-> <<>>, varMap |-> varMap]
    ELSE _o2sRest(h, Tail(args), _operation_to_sympy(h, Head(args), varMap, sf), sf)

\* the arguments after the one converted to c see the varMap c has left
_o2sRest(h, rest, c, sf) == ConsConv(c, _o2sList(h, rest, c.varMap, sf))

\* h is the heap, read where an Expression's operation is followed
_operation_to_sympy(h, arg, varMap, sf) ==
    IF arg.kind = "Variable" THEN VariableToSympy(arg, varMap, sf)
    ELSE IF arg.kind = "Expression"
    THEN _operation_to_sympy(h, h[arg.operation], varMap, sf)
    ELSE IF arg.kind # "Operation" THEN Conv(SError("TypeError"), varMap)
    ELSE IF arg.type \in _supportedOperationsN
    THEN NaryBranch(arg.type, _o2sList(h, arg.args, varMap, sf))
    ELSE IF arg.type \in _supportedOperations2
    THEN BinaryBranch(arg.type,
                      _o2sList(h, <<arg.args[1], BinarySecond(arg.type, arg.args)>>, varMap, sf))
    ELSE IF arg.type \in _supportedOperations1
    THEN IF arg.type \in PassThrough
         THEN _operation_to_sympy(h, arg.args[1], varMap, sf)
         ELSE IF arg.type = _LOG10
         THEN Conv(Apply("log", <<Raw(arg.args[1].name), Integer(10)>>), varMap)
         ELSE UnaryBranch(arg.type, _operation_to_sympy(h, arg.args[1], varMap, sf))
    ELSE Conv(SError("LaTeXExpressionError"), varMap)

_o2s(h, arg, varMap, sf) == _operation_to_sympy(h, arg, varMap, sf).expr

----------------------------------------------------------------------------
(* _sympy2operation: CAS tree -> LaTeX tree *)

\* the first exception among already converted arguments
FirstRaise(args) ==
    LET bad == {i \in 1..Len(args) : IsError(args[i])}
    IN  args[CHOOSE i \in bad : \A j \in bad : i <= j]

AnyRaise(args) == \E i \in 1..Len(args) : IsError(args[i])

\* the type a Mul / Pow operand is bracketed on
BracketType(a) == IF a.kind = "Operation" THEN a.type ELSE ""

Bracketed(a) ==
    IF BracketType(a) \in {_ADD, _SUB} THEN Operation(_RBRACKETS, <<a>>) ELSE a

\* isinstance(sympyExpr, sympy.Add) branch
AddToOperation(args) ==
    IF Len(args) = 2 /\ args[2].kind = "Operation" /\ args[2].type = _NEG
    THEN Operation(_SUB, <<args[1], args[2].args[1]>>)
    ELSE Operation(_ADD, args)

\* isinstance(sympyExpr, sympy.Mul) branch
MulToOperation(args) ==
    IF Len(args) = 2 /\ args[1].kind = "Variable" /\ args[1].name = "-1"
    THEN Operation(_NEG, <<args[2]>>)
    ELSE IF Len(args) = 2 /\ args[2].kind = "Variable" /\ args[2].name = "-1"
    THEN Operation(_NEG, <<args[1]>>)
    ELSE Operation(_MUL, [i \in 1..Len(args) |-> Bracketed(args[i])])

\* isinstance(sympyExpr, sympy.Pow) branch
PowToOperation(args) ==
    LET n == IF args[2].kind = "Variable" THEN args[2].name ELSE ""
    IN  IF n = "-1" THEN Operation(_DIV, <<Number(1, 1), args[1]>>)
        ELSE IF n = "2" THEN Operation(_POW, <<args[1], Number(2, 1)>>)
        ELSE IF n = "0.5" THEN Raise("TypeError")
        ELSE Operation(_POW, <<Bracketed(args[1]), args[2]>>)

\* the (CAS class, LaTeX function) table
FunctionTable ==
    <<  <<"Abs", _ABS>>, <<"sin", _SIN>>, <<"cos", _COS>>, <<"tan", _TAN>>,
        <<"sinh", _SINH>>, <<"cosh", _COSH>>, <<"tanh", _TANH>>, <<"tanh", _TANH>>,
        <<"log", _LN>>  >>

\* isinstance(sympyExpr, sympy.Rational) branch
RationalToOperation(p, q) ==
    IF p > 0
    THEN Operation(_DIV, <<Variable(0, ToString(p), FALSE, p, 1),
                           Variable(0, ToString(q), FALSE, q, 1)>>)
    ELSE Operation(_NEG, <<Operation(_DIV, <<Variable(0, ToString(-p), FALSE, -p, 1),
                                             Variable(0, ToString(q), FALSE, q, 1)>>)>>)

RECURSIVE _sympy2operation(_, _)

_sympy2operation(sympyExpr, varMap) ==
    IF sympyExpr.k \in {"Float", "Integer"}
    THEN Variable(0, FmtG(sympyExpr.num, sympyExpr.den), FALSE, sympyExpr.num, sympyExpr.den)
    ELSE IF sympyExpr.k = "Symbol"
    THEN IF sympyExpr.name \in DOMAIN varMap THEN varMap[sympyExpr.name]
         ELSE Raise("KeyError")
    ELSE LET args == [i \in 1..Len(sympyExpr.args) |->
                         _sympy2operation(sympyExpr.args[i], varMap)]
             hits == {i \in 1..Len(FunctionTable) : FunctionTable[i][1] = sympyExpr.k}
         IN  IF AnyRaise(args) THEN FirstRaise(args)
             ELSE IF sympyExpr.k = "Add" THEN AddToOperation(args)
             ELSE IF sympyExpr.k = "Mul" THEN MulToOperation(args)
             ELSE IF sympyExpr.k = "Pow" THEN PowToOperation(args)
             ELSE IF hits # {}
             THEN Operation(FunctionTable[CHOOSE i \in hits : \A j \in hits : i <= j][2],
                            <<args[1]>>)
             ELSE IF sympyExpr.k = "Rational"
             THEN RationalToOperation(sympyExpr.num, sympyExpr.den)
             ELSE Raise("LaTeXExpressionError")

_s2o(sympyExpr, varMap) == _sympy2operation(sympyExpr, varMap)

----------------------------------------------------------------------------
(* The public functions.  A call works on the heap h and names its         *)
(* argument by reference; it yields the new heap and what the caller gets. *)

Returned(ref) == [status |-> "returned", ref |-> ref]
ReturnedNone == [status |-> "None", ref |-> 0]
Raised(name) == [status |-> name, ref |-> 0]
Out(h, r) == [heap |-> h, ret |-> r]

HasRaised(r) == r.status \notin {"returned", "None", "start"}

\* default of the substituteFloats parameter of the public functions and methods
SubstituteFloatsDefault == FALSE

\* the syms argument of collect; NoSyms for the functions that take none
NoSyms == [shape |-> "none", items |-> <<>>]

\* collect: the check of syms.  isinstance(Variable(s) for s in syms) is a
\* call of isinstance with one argument: whenever syms is not a Variable,
\* evaluating it raises TypeError (as does building the generator over a syms
\* that cannot be iterated), so the raise of LaTeXExpressionError is not reached.
SymsCheck(syms) ==
    IF syms.shape = "Variable" THEN "ok" ELSE "TypeError"

\* collect: syms as CAS symbols, one Symbol or a list of them
SymsToSympy(syms) == [i \in 1..Len(syms.items) |-> Symbol(syms.items[i].name)]

\* The CAS entry points sympy.simplify / expand / factor / collect / cancel /
\* apart: external, so any of a few results over the symbols of s.
CASPicks == {"same", "number", "symbol", "sum"}

SymbolsOf(varMap) == DOMAIN varMap

CAS(s, varMap, pick) ==
    IF pick = "same" \/ SymbolsOf(varMap) = {} THEN
        IF pick = "number" THEN Integer(1) ELSE s
    ELSE LET n == CHOOSE m \in SymbolsOf(varMap) : TRUE
         IN  IF pick = "number" THEN Integer(1)
             ELSE IF pick = "symbol" THEN Symbol(n)
             ELSE Apply("Add", <<Integer(-1), Symbol(n)>>)

\* the isinstance(arg, Operation) branch of a public function after the
\* conversion c: the check of syms (collect), the CAS call, the conversion back
FromSympy(c, syms, pick) ==
    IF IsSError(c.expr) THEN Raise(c.expr.name)
    ELSE IF syms.shape # "none" /\ SymsCheck(syms) # "ok" THEN Raise(SymsCheck(syms))
    ELSE _sympy2operation(CAS(c.expr, c.varMap, pick), c.varMap)

\* the isinstance(arg, Operation) branch of a public function: the object it returns
OperationBranch(h, arg, sf, syms, pick) ==
    FromSympy(_operation_to_sympy(h, arg, EmptyMap, sf), syms, pick)

\* the caller receives the new object o, or the exception
ReturnNew(h, o) ==
    IF IsError(o) THEN Out(h, Raised(o.name))
    ELSE Out(Append(h, o), Returned(Len(h) + 1))

\* copy_copy that hands back the argument itself instead of a copy
copy_copy_Alias(h, a) == [heap |-> h, ref |-> a]

\* copy.copy(arg): a new object with the same attributes (the same references)
copy_copy(h, a) == [heap |-> Append(h, [h[a] EXCEPT !.id = 0]), ref |-> Len(h) + 1]

\* expr.operation = operation
_setOperation(expr, operation) == [expr EXCEPT !.operation = operation]

\* o1.type = o2.type ; o1.args = o2.args ; o1.format = ... ; o1.exponent = ...
\* a Variable has no attribute type: the first assignment raises
_copyOperation(o1, o2) ==
    IF o2.kind # "Operation" THEN Raise("AttributeError")
    ELSE [o1 EXCEPT !.type = o2.type, !.args = o2.args,
                    !.format = o2.format, !.exponent = o2.exponent]

\* the body of the Expression methods, m being what the public function
\* yields on self.operation: _setOperation(self, m)
SetFromResult(h, a, m) ==
    IF HasRaised(m.ret) THEN Out(h, m.ret)
    ELSE Out([m.heap EXCEPT ![a] = _setOperation(m.heap[a], m.ret.ref)], ReturnedNone)

RECURSIVE Public(_, _, _, _, _)

\* simplify(arg, ...), expand(arg, ...), factor, collect(arg, syms, ...), cancel, apart
Public(h, a, sf, syms, pick) ==
    IF h[a].kind = "Variable" THEN Out(h, Returned(a))
    ELSE IF h[a].kind = "Expression"
    THEN LET c == copy_copy(h, a)
             \* ret.simplify(substituteFloats, **kw)
             m == SetFromResult(c.heap, c.ref,
                                Public(c.heap, c.heap[c.ref].operation, sf, syms, pick))
         IN  IF HasRaised(m.ret) THEN Out(h, m.ret)
             ELSE Out(m.heap, Returned(c.ref))
    ELSE IF h[a].kind = "Operation"
    THEN ReturnNew(h, OperationBranch(h, h[a], sf, syms, pick))
    ELSE Out(h, Raised("TypeError"))

\* Expression.simplify = lambda self, ...: _setOperation(self, simplify(self.operation, ...))
ExpressionMethod(h, a, sf, syms, pick) ==
    SetFromResult(h, a, Public(h, h[a].operation, sf, syms, pick))

\* _copyOperation(self, o), o being what the public function returned or raised
CopyFromResult(h, a, o) ==
    IF IsError(o) THEN Out(h, Raised(o.name))
    ELSE IF IsError(_copyOperation(h[a], o)) THEN Out(h, Raised(_copyOperation(h[a], o).name))
    ELSE Out([h EXCEPT ![a] = _copyOperation(h[a], o)], ReturnedNone)

\* Operation.simplify = lambda self, ...: _copyOperation(self, simplify(self, ...))
OperationMethod(h, a, sf, syms, pick) ==
    CopyFromResult(h, a, OperationBranch(h, h[a], sf, syms, pick))

----------------------------------------------------------------------------
(* The objects of a session *)

x == Variable(11, "x", TRUE, 0, 1)          \* Variable('x', None)
v3 == Variable(12, "v3", FALSE, 5, 2)       \* Variable('v3', 2.5)
two == Variable(13, "2", FALSE, 2, 1)       \* the number 2 inside an operation
half == Variable(14, "0.5", FALSE, 1, 2)    \* the number 0.5 inside an operation
x7 == Variable(15, "x", FALSE, 7, 1)        \* another Variable named x, with a value

\* o1 = x + v3 - 2 with its own format ; e1 = Expression('e1', o1) ; x
InitHeap ==
    << [Operation(_SUB, <<Operation(_ADD, <<x, v3>>), two>>)
            EXCEPT !.id = 1, !.format = "%.2f"],
       Expression(2, "e1", 1),
       x >>

\* how a caller gives substituteFloats
SfGiven == {"omitted", "True", "False"}
Effective(given) == IF given = "omitted" THEN SubstituteFloatsDefault ELSE given = "True"

\* what a caller may hand to collect as syms
SymsGiven ==
    { [shape |-> "Variable", items |-> <<x>>],
      [shape |-> "list", items |-> <<x, v3>>],
      [shape |-> "other", items |-> <<>>] }

NoCall == [form |-> "none", target |-> 0]

IdleConv ==
    /\ cin = Raise("")
    /\ csf = "omitted"
    /\ cout = Conv(Raw(""), EmptyMap)
    /\ cback = Raise("")

Init ==
    /\ heap = InitHeap
    /\ ret = [status |-> "start", ref |-> 0]
    /\ last = NoCall
    /\ calls = 0
    /\ IdleConv
    /\ pc = "idle"

\* the outcome out of a call becomes the state
Outcome(form, a, out) ==
    /\ heap' = out.heap
    /\ ret' = out.ret
    /\ last' = [form |-> form, target |-> a]

\* one call of a public function (form "module") or of a method (form "method")
Call(form, a, given, syms, pick) ==
    /\ calls < MaxCalls
    /\ pc = "idle"
    /\ a \in DOMAIN heap
    /\ form = "method" => heap[a].kind \in {"Expression", "Operation"}
    /\ Outcome(form, a,
               IF form = "module" THEN Public(heap, a, Effective(given), syms, pick)
               ELSE IF heap[a].kind = "Expression"
               THEN ExpressionMethod(heap, a, Effective(given), syms, pick)
               ELSE OperationMethod(heap, a, Effective(given), syms, pick))
    /\ calls' = calls + 1
    /\ UNCHANGED <<cin, csf, cout, cback, pc>>

AnyKind == {"Variable", "Expression", "Operation"}

\* the objects a call is made on: those the program holds, and the one just returned
Targets == (1..Len(InitHeap)) \cup (IF ret.status = "returned" THEN {ret.ref} ELSE {})

simplify ==
    \E a \in Targets, given \in SfGiven, pick \in CASPicks :
        /\ heap[a].kind \in AnyKind
        /\ Call("module", a, given, NoSyms, pick)

expand ==
    \E a \in Targets, given \in SfGiven, pick \in CASPicks :
        /\ heap[a].kind \in AnyKind
        /\ Call("module", a, given, NoSyms, pick)

factor ==
    \E a \in Targets, given \in SfGiven, pick \in CASPicks :
        /\ heap[a].kind \in AnyKind
        /\ Call("module", a, given, NoSyms, pick)

collect ==
    \E a \in Targets, given \in SfGiven, pick \in CASPicks, syms \in SymsGiven :
        /\ heap[a].kind \in AnyKind
        /\ Call("module", a, given, syms, pick)

cancel ==
    \E a \in Targets, given \in SfGiven, pick \in CASPicks :
        /\ heap[a].kind \in AnyKind
        /\ Call("module", a, given, NoSyms, pick)

apart ==
    \E a \in Targets, given \in SfGiven, pick \in CASPicks :
        /\ heap[a].kind \in AnyKind
        /\ Call("module", a, given, NoSyms, pick)

Expression_simplify ==
    \E a \in Targets, given \in SfGiven, pick \in CASPicks :
        /\ heap[a].kind \in {"Expression"}
        /\ Call("method", a, given, NoSyms, pick)

Expression_expand ==
    \E a \in Targets, given \in SfGiven, pick \in CASPicks :
        /\ heap[a].kind \in {"Expression"}
        /\ Call("method", a, given, NoSyms, pick)

Expression_factor ==
    \E a \in Targets, given \in SfGiven, pick \in CASPicks :
        /\ heap[a].kind \in {"Expression"}
        /\ Call("method", a, given, NoSyms, pick)

Expression_collect ==
    \E a \in Targets, given \in SfGiven, pick \in CASPicks, syms \in SymsGiven :
        /\ heap[a].kind \in {"Expression"}
        /\ Call("method", a, given, syms, pick)

Expression_cancel ==
    \E a \in Targets, given \in SfGiven, pick \in CASPicks :
        /\ heap[a].kind \in {"Expression"}
        /\ Call("method", a, given, NoSyms, pick)

Expression_apart ==
    \E a \in Targets, given \in SfGiven, pick \in CASPicks :
        /\ heap[a].kind \in {"Expression"}
        /\ Call("method", a, given, NoSyms, pick)

Operation_simplify ==
    \E a \in Targets, given \in SfGiven, pick \in CASPicks :
        /\ heap[a].kind \in {"Operation"}
        /\ Call("method", a, given, NoSyms, pick)

Operation_expand ==
    \E a \in Targets, given \in SfGiven, pick \in CASPicks :
        /\ heap[a].kind \in {"Operation"}
        /\ Call("method", a, given, NoSyms, pick)

Operation_factor ==
    \E a \in Targets, given \in SfGiven, pick \in CASPicks :
        /\ heap[a].kind \in {"Operation"}
        /\ Call("method", a, given, NoSyms, pick)

Operation_collect ==
    \E a \in Targets, given \in SfGiven, pick \in CASPicks, syms \in SymsGiven :
        /\ heap[a].kind \in {"Operation"}
        /\ Call("method", a, given, syms, pick)

Operation_cancel ==
    \E a \in Targets, given \in SfGiven, pick \in CASPicks :
        /\ heap[a].kind \in {"Operation"}
        /\ Call("method", a, given, NoSyms, pick)

Operation_apart ==
    \E a \in Targets, given \in SfGiven, pick \in CASPicks :
        /\ heap[a].kind \in {"Operation"}
        /\ Call("method", a, given, NoSyms, pick)

Next ==
    \/ simplify \/ expand \/ factor \/ collect \/ cancel \/ apart
    \/ Expression_simplify \/ Expression_expand \/ Expression_factor
    \/ Expression_collect \/ Expression_cancel \/ Expression_apart
    \/ Operation_simplify \/ Operation_expand \/ Operation_factor
    \/ Operation_collect \/ Operation_cancel \/ Operation_apart

Spec == Init /\ [][Next]_vars

----------------------------------------------------------------------------
(* The two conversions on their own: an object is converted to the CAS     *)
(* tree as a public call converts it, and the tree is converted straight   *)
(* back (the CAS step taken as the identity).                              *)

ConvArgs ==
    {x, v3, two, half, x7, InitHeap[2],
     Operation(_ADD, <<x, v3>>), Operation(_NEG, <<x>>)}

ConvInputs ==
    {a \in ConvArgs : a.kind = "Variable"}
    \cup {Operation(t, <<a>>) : t \in _supportedOperations1, a \in ConvArgs}
    \cup {Operation(t, <<a, b>>) : t \in _supportedOperations2, a \in ConvArgs, b \in ConvArgs}
    \cup UNION {{Operation(t, args) : t \in _supportedOperationsN, args \in [1..n -> ConvArgs]}
                    : n \in 1..MaxArity}

InitConv ==
    /\ heap = InitHeap
    /\ ret = [status |-> "start", ref |-> 0]
    /\ last = NoCall
    /\ calls = 0
    /\ cin \in ConvInputs
    /\ csf \in SfGiven
    /\ cout = Conv(Raw(""), EmptyMap)
    /\ cback = Raise("")
    /\ pc = "start"

ToSympy ==
    /\ pc = "start"
    /\ cout' = _operation_to_sympy(heap, cin, EmptyMap, Effective(csf))
    /\ pc' = IF IsSError(cout'.expr) THEN "raised" ELSE "sympy"
    /\ UNCHANGED <<heap, ret, last, calls, cin, csf, cback>>

ToOperation ==
    /\ pc = "sympy"
    /\ cback' = _sympy2operation(cout.expr, cout.varMap)
    /\ pc' = "back"
    /\ UNCHANGED <<heap, ret, last, calls, cin, csf, cout>>

NextConv == ToSympy \/ ToOperation

SpecConv == InitConv /\ [][NextConv]_vars

----------------------------------------------------------------------------
(* Vocabulary of the properties *)

\* a CAS node of class k over args, written out
Node(k, args) == [k |-> k, name |-> "", num |-> 0, den |-> 1, args |-> args]

\* what the caller asked for: substituteFloats only when given as True
AskedSf == csf = "True"

\* the CAS tree of the i-th argument of the object under conversion
ArgTree(i) == _o2s(heap, cin.args[i], EmptyMap, AskedSf)

Converted == pc \in {"sympy", "back"}

----------------------------------------------------------------------------
\* C7 (SpecConv): conversion to the CAS tree keeps the meaning of the
\* arithmetic operations: a - b is Add(a, Mul(-1, b)); a / b (tags div and
\* div2) is Mul(a, Pow(b, -1)); the negation of a is Mul(a, -1); the square of
\* a is Pow(a, 2); a to the power b is Pow(a, b); an n-ary add is Add and an
\* n-ary multiply is Mul over the converted arguments in order.
C7_ArithmeticMeaning ==
    (Converted /\ cin.kind = "Operation") =>
        /\ cin.type = _SUB =>
             cout.expr = Node("Add", <<ArgTree(1), Node("Mul", <<Integer(-1), ArgTree(2)>>)>>)
        /\ cin.type \in {_DIV, _DIV2} =>
             cout.expr = Node("Mul", <<ArgTree(1), Node("Pow", <<ArgTree(2), Integer(-1)>>)>>)
        /\ cin.type = _NEG => cout.expr = Node("Mul", <<ArgTree(1), Integer(-1)>>)
        /\ cin.type = _SQR => cout.expr = Node("Pow", <<ArgTree(1), Integer(2)>>)
        /\ cin.type = _POW => cout.expr = Node("Pow", <<ArgTree(1), ArgTree(2)>>)
        /\ cin.type = _ADD =>
             cout.expr = Node("Add", [i \in 1..Len(cin.args) |-> ArgTree(i)])
        /\ cin.type = _MUL =>
             cout.expr = Node("Mul", [i \in 1..Len(cin.args) |-> ArgTree(i)])

\* a difference of two operands, one of them an operation, has been converted
C7_Witness ==
    /\ pc = "sympy"
    /\ cin.kind = "Operation" /\ cin.type = _SUB
    /\ cin.args[1].kind = "Operation"
    /\ cout.expr.k = "Add" /\ cout.expr.args[2].k = "Mul"

----------------------------------------------------------------------------
\* C8 (SpecConv): conversion to the CAS tree keeps the meaning of roots: the
\* square root of a is a to the power 1/2, and the n-th root (tag root, two
\* arguments) is the radicand to the power 1/n.
C8_RootMeaning ==
    (Converted /\ cin.kind = "Operation") =>
        /\ cin.type = _SQRT =>
             \E h \in {Rational(1, 2), Float(1, 2)} :
                 cout.expr = Node("Pow", <<ArgTree(1), h>>)
        /\ cin.type = _ROOT =>
             \E r \in {1, 2} :
                 cout.expr = Node("Pow", <<ArgTree(r),
                                           Node("Pow", <<ArgTree(3 - r), Integer(-1)>>)>>)

----------------------------------------------------------------------------
\* C6 (SpecConv): the translation table is consistent in both directions: for
\* each unary function tag f among abs, sin, cos, tan, sinh, cosh, tanh, exp,
\* ln and each symbolic Variable v, converting f(v) to the CAS tree and that
\* tree straight back gives an operation with tag f applied to v.
UnaryFunctions == {_ABS, _SIN, _COS, _TAN, _SINH, _COSH, _TANH, _EXP, _LN}

C6_TableRoundTrip ==
    (/\ pc = "back"
     /\ cin.kind = "Operation" /\ cin.type \in UnaryFunctions
     /\ cin.args[1].kind = "Variable" /\ cin.args[1].symbolic) =>
        /\ cback.kind = "Operation"
        /\ cback.type = cin.type
        /\ cback.args = <<cin.args[1]>>

----------------------------------------------------------------------------
IsLiteral(v) == ~v.symbolic /\ v.name = FmtG(v.num, v.den)

\* the Variables a conversion meets, in the order it meets them
RECURSIVE LeafSeq(_, _)
RECURSIVE LeafSeqOfArgs(_, _)
LeafSeqOfArgs(h, args) ==
    IF args = <<>> THEN <<>> ELSE LeafSeq(h, Head(args)) \o LeafSeqOfArgs(h, Tail(args))
LeafSeq(h, o) ==
    IF o.kind = "Variable" THEN <<o>>
    ELSE IF o.kind = "Expression" THEN LeafSeq(h, h[o.operation])
    ELSE IF o.type = _LOG10 THEN <<>>
    ELSE LeafSeqOfArgs(h, o.args)

Kept(v) == v.symbolic \/ (~AskedSf /\ ~IsLiteral(v))

LastKept(leaves, name) ==
    leaves[CHOOSE i \in 1..Len(leaves) :
              /\ leaves[i].name = name /\ Kept(leaves[i])
              /\ \A j \in 1..Len(leaves) :
                    (leaves[j].name = name /\ Kept(leaves[j])) => j <= i]

ExpectedTree(v) ==
    IF Kept(v) THEN Symbol(v.name)
    ELSE IF IsLiteral(v) /\ v.den = 1 THEN Integer(v.num)
    ELSE Float(v.num, v.den)

ExpectedBack(leaves, v) ==
    IF Kept(v) THEN LastKept(leaves, v.name)
    ELSE Variable(0, FmtG(v.num, v.den), FALSE, v.num, v.den)

AllVariables(args) == \A i \in 1..Len(args) : args[i].kind = "Variable"

----------------------------------------------------------------------------
\* C1 (Spec): each of the six module-level functions returns an object of the
\* kind of its argument (Variable, Operation, Expression), whatever the CAS
\* result is, a bare number or a bare symbol included.
C1_SameKind ==
    (last.form = "module" /\ ret.status = "returned") =>
        heap[ret.ref].kind = heap[last.target].kind

----------------------------------------------------------------------------
\* C2 (Spec): a module-level call never modifies its argument: every object
\* that existed before the call (the Expression with the operation it refers
\* to, the Operation with its type and args) is the same after it, whether the
\* call returns or raises; the result is delivered only through the returned
\* object.  So whatever module-level calls came before, a method call on e
\* starts from the operation e had.
C2_ArgumentUntouched ==
    [][last'.form = "module" =>
          /\ Len(heap') >= Len(heap)
          /\ \A c \in DOMAIN heap : heap'[c] = heap[c]
          /\ ret'.status = "returned" => ret'.ref \in DOMAIN heap']_vars

\* a module-level call on the Expression e1 has returned a new Expression with
\* a new operation, and e1 still refers to the operation it had
C2_Witness ==
    /\ last.form = "module" /\ last.target = 2
    /\ ret.status = "returned" /\ ret.ref # 2
    /\ heap[ret.ref].kind = "Expression"
    /\ heap[ret.ref].operation # InitHeap[2].operation
    /\ heap[2] = InitHeap[2]
    /\ heap[1] = InitHeap[1]

----------------------------------------------------------------------------
\* C3 (Spec): the method forms copy the result back onto the receiver: after
\* e.op(...) on an Expression e, e.operation is the result of the module-level
\* op on e's previous operation; after o.op(...) on an Operation o, o's type,
\* args, format and exponent are those of the module-level op on o; for every
\* op and every CAS result.
C3_MethodCopiesBack ==
    [][\A a \in DOMAIN heap, given \in SfGiven, pick \in CASPicks,
          syms \in SymsGiven \cup {NoSyms} :
          (/\ heap[a].kind \in {"Expression", "Operation"}
           /\ Call("method", a, given, syms, pick)) =>
             LET of == IF heap[a].kind = "Expression" THEN heap[a].operation ELSE a
                 m == Public(heap, of, Effective(given), syms, pick)
                 result == m.heap[m.ret.ref]
             IN  m.ret.status = "returned" =>
                   /\ ret'.status = "None"
                   /\ IF heap[a].kind = "Expression"
                      THEN heap'[heap'[a].operation] = result
                      ELSE /\ heap'[a].type = result.type
                           /\ heap'[a].args = result.args
                           /\ heap'[a].format = result.format
                           /\ heap'[a].exponent = result.exponent]_vars

----------------------------------------------------------------------------
\* C5 (Spec): collect(arg, syms) on an Operation takes syms as one Variable or
\* as a list of Variables and returns the back-converted CAS result in both
\* cases; a syms that is neither raises LaTeXExpressionError.
C5_CollectSyms ==
    [][\A a \in DOMAIN heap, given \in SfGiven, pick \in CASPicks, syms \in SymsGiven :
          (/\ heap[a].kind = "Operation"
           /\ Call("module", a, given, syms, pick)) =>
             LET c == _operation_to_sympy(heap, heap[a], EmptyMap, Effective(given))
                 back == _sympy2operation(CAS(c.expr, c.varMap, pick), c.varMap)
             IN  (~IsSError(c.expr) /\ ~IsError(back)) =>
                   IF syms.shape \in {"Variable", "list"} /\ AllVariables(syms.items)
                   THEN ret'.status = "returned" /\ heap'[ret'.ref] = back
                   ELSE ret'.status = "LaTeXExpressionError"]_vars

====
